---- MODULE Spec2Model ----
(***************************************************************************)
(* State machine of the my-world-atlas persistence core:                   *)
(*   - the zustand store of src/src/store/useAtlasStore.js (visitedPlaces, *)
(*     selectedPlace, isLoading, error, toast and its actions),            *)
(*   - the IndexedDB object store 'visitedPlaces' (keyPath uniqueId),      *)
(*   - the DBService methods of src/src/services/dbService.js,             *)
(*   - the geo-data cache of src/src/services/mapService.js (SpecMap).     *)
(*                                                                         *)
(* An async store action is a call in a slot of `call`.  Its code runs in  *)
(* pieces separated by the awaits at which the event loop can run other    *)
(* work: the piece up to the first I/O is the action named after the store *)
(* action, the pieces after an I/O completes are named <action>_<io>.      *)
(* `await dbPromise` (an already settled promise) resumes in a microtask,  *)
(* before any other task, so it does not split a piece.                    *)
(*                                                                         *)
(* IndexedDB runs the transactions on one object store in the order they   *)
(* were created and delivers their events in that order; `txq` is that     *)
(* order, and a transaction takes effect in the step that delivers its     *)
(* completion (no other piece of this program can observe the store in     *)
(* between).                                                               *)
(***************************************************************************)
EXTENDS Integers, Sequences, FiniteSets, TLC

\* ------------------------------------------------------------------ bounds
\* Largest value of the wall clock (new Date()).
MaxClock == 2
\* Most invocations of store actions in one run.
MaxCalls == 3

\* The calls that can be in flight at the same time.
Slots == {"c1", "c2"}

\* ------------------------------------------------------- JavaScript values
\* A JavaScript value: its type and its text.
Undef == [k |-> "undefined", v |-> ""]
Str(s) == [k |-> "string", v |-> s]
Num(s) == [k |-> "number", v |-> s]
Bool(s) == [k |-> "boolean", v |-> s]

\* ToBoolean: undefined, null, "", 0, NaN and false are falsy.
Truthy(x) ==
  CASE x.k = "string" -> x.v # ""
    [] x.k = "number" -> x.v \notin {"0", "NaN"}
    [] x.k = "boolean" -> x.v = "true"
    [] x.k \in {"object", "array", "date"} -> TRUE
    [] OTHER -> FALSE

\* a || b
OrElse(a, b) == IF Truthy(a) THEN a ELSE b

\* uniqueId.split('-')[0], on the identifiers of the model.
SplitHead(x) == IF x = Str("US-CA") THEN Str("US") ELSE x

\* new Date().toISOString() at clock value n.
ToISOString(n) == Str("2024-01-0" \o ToString(n) \o "T00:00:00.000Z")

\* ----------------------------------------------------------------- inputs
Place(id, name, level, country) ==
  [uniqueId |-> id, placeName |-> name, adminLevel |-> level,
   countryCodeISO |-> country, regionCodeISO |-> Undef]

\* placeData a view passes to markPlaceAsVisited: a complete one, one
\* without placeName, one with an empty uniqueId, one with an empty adminLevel.
PlaceInputs ==
  { Place(Str("US-CA"), Str("California"), Str("State"), Undef),
    Place(Str("US-CA"), Undef, Str("State"), Undef),
    Place(Str(""), Str("California"), Str("State"), Str("US")),
    Place(Str("US-CA"), Str("California"), Str(""), Undef) }

\* A stored record / a parsed CSV row.
Row(id, name, level, date) ==
  [uniqueId |-> id, placeName |-> name, adminLevel |-> level, dateMarked |-> date,
   countryCodeISO |-> Undef, regionCodeISO |-> Undef]

OldDate == Str("2023-10-01T00:00:00.000Z")

\* What FileReader and Papa.parse (header, dynamicTyping, skipEmptyLines) make
\* of a file: whether it can be read, whether parsing reports errors, and
\* the rows.  dynamicTyping turns the cell 1 into a number and the cell true
\* into a boolean; a missing column leaves the field undefined.
CsvFile(readable, errors, data) == [readable |-> readable, errors |-> errors, data |-> data]

FileContents(file) ==
  CASE file = "places.csv" ->
         CsvFile(TRUE, FALSE,
           << Row(Str("US-CA"), Str("Calif."), Str("State"), OldDate),
              Row(Bool("true"), Str("Osaka"), Str("Prefecture"), Undef),
              Row(Num("1"), Str("Tokyo"), Str("Prefecture"), Undef),
              Row(Str("FR"), Undef, Str("Country"), OldDate) >>)
    [] file = "broken.csv" ->
         CsvFile(TRUE, TRUE, << Row(Str("US-CA"), Str("Calif."), Str("State"), OldDate) >>)
    [] file = "invalid-rows.csv" ->
         CsvFile(TRUE, FALSE,
           << Row(Num("0"), Str("Tokyo"), Str("Prefecture"), Undef),
              Row(Str("FR"), Str(""), Str("Country"), Undef) >>)
    [] OTHER -> CsvFile(FALSE, FALSE, <<>>)

\* The File a view passes to importFromCSV; "" is no file (null).
FileInputs == {"", "places.csv", "broken.csv", "invalid-rows.csv", "unreadable.csv"}

\* uniqueId arguments of removePlaceVisit.
IdInputs == {Str("JP"), Str("US-CA")}

\* The keys of the model in IndexedDB key order (numbers before strings,
\* strings by code unit).
KeyOrder == <<Num("1"), Str("FR"), Str("JP"), Str("US-CA")>>

\* ------------------------------------------------------------------ state
VARIABLES
  db,             \* the records of object store 'visitedPlaces'
  visitedPlaces,  \* store state: sequence of records
  selectedPlace,  \* store state: a record or Undef
  isLoading,      \* store state
  error,          \* store state: a message or NoError
  toast,          \* store state: [show, message, type]
  timers,         \* pending setTimeout(..., 3000) toast dismissals
  download,       \* the records of the last CSV handed to the browser
  call,           \* the store actions in flight, by slot
  txq,            \* slots whose IndexedDB transaction is pending, oldest first
  ret,            \* how the most recently finished store action settled
  dbResult,       \* what the last DBService call returned or threw
  calls,          \* store and DBService calls invoked so far
  initialized,    \* history: initializeStore has loaded the list at least once
  now,            \* the wall clock
  geoDataCache,   \* MapService: the payload entries and lastFetched
  mcall,          \* MapService: the getCountriesGeoJson calls in flight, by slot
  mret,           \* MapService: how the most recently settled call settled
  fetches,        \* MapService: network fetches issued so far
  mcalls,         \* MapService: calls invoked so far
  clock,          \* the wall clock of the MapService, in units of retryDelay
  geo,            \* MapService: the getCurrentLocation calls, by slot
  upload,         \* FileService: the File handed to parseCSV
  parsed,         \* FileService: how parseCSV settled
  generated       \* FileService: what generateCSV returned or threw

vars == <<db, visitedPlaces, selectedPlace, isLoading, error, toast, timers,
          download, call, txq, ret, dbResult, calls, initialized, now>>

mapVars == <<geoDataCache, mcall, mret, fetches, mcalls, clock>>
geoVars == <<geo>>
fileVars == <<upload, parsed, generated>>
\* What the store leaves alone.
serviceVars == <<mapVars, geoVars, fileVars>>

NoError == "null"
NoDownload == <<Undef>>
NoResult == [status |-> "none", success |-> 0, skipped |-> 0]

Message(text, name, success, skipped) ==
  [text |-> text, name |-> name, success |-> success, skipped |-> skipped]
Text(text) == Message(text, "", 0, 0)

Idle == [op |-> "none", pc |-> "idle", id |-> Undef, rec |-> Undef, file |-> "",
         rows |-> <<>>, success |-> 0, skipped |-> 0]

\* ------------------------------------------------------- the object store
\* objectStore.put: insert, or replace the record of the same key.
Put(store, r) == {x \in store : x.uniqueId # r.uniqueId} \cup {r}

\* objectStore.delete: no error when the key is absent.
Delete(store, id) == {x \in store : x.uniqueId # id}

\* A value IndexedDB accepts as a key: put throws DataError on any other.
ValidKey(x) == x.k = "string" \/ (x.k = "number" /\ x.v # "NaN")

RECURSIVE GetAllFrom(_, _)
GetAllFrom(store, i) ==
  IF i > Len(KeyOrder) THEN <<>>
  ELSE (IF \E r \in store : r.uniqueId = KeyOrder[i]
        THEN <<CHOOSE r \in store : r.uniqueId = KeyOrder[i]>>
        ELSE <<>>) \o GetAllFrom(store, i + 1)

\* db.getAll('visitedPlaces'): every record, in key order.
GetAll(store) == GetAllFrom(store, 1)

\* The position of slot s in txq is dropped.
RECURSIVE Without(_, _)
Without(q, s) ==
  IF q = <<>> THEN <<>>
  ELSE IF Head(q) = s THEN Without(Tail(q), s)
  ELSE <<Head(q)>> \o Without(Tail(q), s)

\* ------------------------------------------------------- error utilities
\* formatErrorMessage(error, fallback): the error's own message, or the
\* fallback when it carries none.
formatErrorMessage(e, fallback) == IF e # "" THEN e ELSE fallback

\* withErrorHandling(fn, onError): how the wrapped call settles when fn
\* threw (after onError ran) or returned.
withErrorHandling(threw) == "fulfilled"

\* The error of an IndexedDB failure (open, transaction, request or commit)
\* and the one a failing Papa.unparse, Blob or DOM call throws: errors
\* formatErrorMessage has no message for.
DbError == ""
DomError == ""

ErrorToast(msg) == [show |-> TRUE, message |-> Text(msg), type |-> "error"]

\* A view invokes a store action.
Invoked == calls < MaxCalls /\ calls' = calls + 1

\* The slot a new call takes: the slots are interchangeable.
Free(s) == call[s].pc = "idle" /\ (s = "c2" => call["c1"].pc # "idle") /\ Invoked

\* -------------------------------------------------------------- MapService
\* JavaScript null, an array (v: what it holds, "" when empty) and a Date
\* (v: the clock value).
Null == [k |-> "null", v |-> ""]
Arr(s) == [k |-> "array", v |-> s]
DateOf(n) == [k |-> "date", v |-> n]

\* Array.isArray
IsArray(x) == x.k = "array"

\* A parsed response body that is an object, with its `features` property.
Geo(features) == [k |-> "object", v |-> "", features |-> features]

\* this.cacheExpiration, in clock units (the code's 24 hours, scaled down so
\* that an entry expires within MaxTime).
cacheExpiration == 3
\* this.maxRetries
maxRetries == 3
\* this.retryDelay: one clock unit.
retryDelay == 1

\* Largest value of the MapService clock.
MaxTime == 5
\* Most invocations of MapService methods in one run.
MaxMapCalls == 3

\* The getCountriesGeoJson calls that can be in flight at the same time.
MapSlots == {"m1", "m2"}

\* An object that has no `features` property.
Obj(v) == [k |-> "object", v |-> v, features |-> Undef]

\* The cache the constructor builds.
NewCache == [countries |-> Null, lastFetched |-> Null]

\* The caches a run starts from: the constructor's, and the one the jest
\* suite assigns (two payload entries and a fetch time).
InitialCaches ==
  { NewCache,
    [key1 |-> Obj("some: data"), key2 |-> Obj("other: info"), lastFetched |-> DateOf(0)] }

\* cacheKey arguments; "" is no argument (the default null).
NoKey == ""
KeyInputs == {"countries", "key1", "key2", "missing"}

\* this.geoDataCache[cacheKey]
Entry(cache, cacheKey) == IF cacheKey \in DOMAIN cache THEN cache[cacheKey] ELSE Undef

\* this.geoDataCache[key] = value
SetEntry(cache, key, value) ==
  [k \in DOMAIN cache \cup {key} |-> IF k = key THEN value ELSE cache[k]]

\* Mutant of isCacheValid: the age of the entry is not looked at.
isCacheValid_IgnoresExpiry(cacheKey) ==
  ~(~Truthy(Entry(geoDataCache, cacheKey)) \/ ~Truthy(geoDataCache.lastFetched))

\* isCacheValid(cacheKey), at the current clock.
isCacheValid(cacheKey) ==
  IF ~Truthy(Entry(geoDataCache, cacheKey)) \/ ~Truthy(geoDataCache.lastFetched)
  THEN FALSE
  ELSE LET elapsed == clock - geoDataCache.lastFetched.v IN
       elapsed < cacheExpiration

\* Mutant of Cleared: clearing one named entry keeps the fetch time.
Cleared_KeepsTimestamp(cache, cacheKey) ==
  IF cacheKey # NoKey /\ Truthy(Entry(cache, cacheKey))
  THEN SetEntry(cache, cacheKey, Null)
  ELSE [k \in DOMAIN cache |-> Null]

\* The cache after clearCache(cacheKey).
Cleared(cache, cacheKey) ==
  LET emptied ==
        IF cacheKey # NoKey /\ Truthy(Entry(cache, cacheKey))
        THEN SetEntry(cache, cacheKey, Null)
        ELSE [k \in DOMAIN cache |-> IF k # "lastFetched" THEN Null ELSE cache[k]]
  IN SetEntry(emptied, "lastFetched", Null)

\* A MapService method is invoked.
MapInvoked == mcalls < MaxMapCalls /\ mcalls' = mcalls + 1

clearCache(cacheKey) ==
  /\ MapInvoked
  /\ geoDataCache' = Cleared(geoDataCache, cacheKey)
  /\ UNCHANGED <<mcall, mret, fetches, clock>>
  /\ UNCHANGED <<vars, geoVars, fileVars>>

\* What one attempt can come to: fetch rejects (transport error, or the 10 s
\* AbortSignal.timeout), or it responds with response.ok or not, and
\* response.json() parses to `data` or throws.
Outcome(fetch, ok, parses, data) ==
  [fetch |-> fetch, ok |-> ok, parses |-> parses, data |-> data]

\* Response bodies: two feature collections (one with no feature), an object
\* without features, one whose features is a string, and null.
Payloads == {Geo(Arr("countries")), Geo(Arr("")), Geo(Undef), Geo(Str("none")), Null}

FetchOutcomes ==
  {Outcome("rejects", FALSE, FALSE, Undef),
   Outcome("responds", FALSE, TRUE, Geo(Arr("countries"))),
   Outcome("responds", TRUE, FALSE, Undef)}
  \cup {Outcome("responds", TRUE, TRUE, d) : d \in Payloads}

\* Mutant of ValidGeoJson: any object passes.
ValidGeoJson_AnyObject(data) == Truthy(data)

\* The negation of (!data || !data.features || !Array.isArray(data.features)).
ValidGeoJson(data) ==
  ~(~Truthy(data) \/ ~Truthy(data.features) \/ ~IsArray(data.features))

\* The attempt reaches `return data`: no throw in the try block.
Succeeds(o) == o.fetch = "responds" /\ o.ok /\ o.parses /\ ValidGeoJson(o.data)

\* Mutant of Fetched: a failed attempt drops the entry it could not renew.
Fetched_ClearsOnFailure(cache, o, t) ==
  IF Succeeds(o)
  THEN SetEntry(SetEntry(cache, "countries", o.data), "lastFetched", DateOf(t))
  ELSE SetEntry(SetEntry(cache, "countries", Null), "lastFetched", Null)

\* The cache after an attempt with outcome o at time t.
Fetched(cache, o, t) ==
  IF Succeeds(o)
  THEN SetEntry(SetEntry(cache, "countries", o.data), "lastFetched", DateOf(t))
  ELSE cache

\* Mutant of Exhausted: one more attempt is allowed.
Exhausted_OneMore(retries) == retries > maxRetries

\* retries >= this.maxRetries
Exhausted(retries) == retries >= maxRetries

\* this.retryDelay * retries
Backoff(retries) == retryDelay * retries

MapIdle == [pc |-> "idle", retries |-> 0, due |-> 0]
NoMapResult == [status |-> "none", data |-> Undef, attempts |-> 0]
Returned(data) == [status |-> "returned", data |-> data, attempts |-> 0]
Rejected(attempts) == [status |-> "rejected", data |-> Undef, attempts |-> attempts]

\* The slot a new call takes: the slots are interchangeable.
MapFree(m) == mcall[m].pc = "idle" /\ (m = "m2" => mcall["m1"].pc # "idle") /\ MapInvoked

\* Mutant of getCountriesGeoJson: the cache is not consulted.
getCountriesGeoJson_AlwaysFetches(m) ==
  /\ MapFree(m)
  /\ mcall' = [mcall EXCEPT ![m] = [MapIdle EXCEPT !.pc = "fetch"]]
  /\ fetches' = fetches + 1
  /\ UNCHANGED <<geoDataCache, mret, clock>>
  /\ UNCHANGED <<vars, geoVars, fileVars>>

\* getCountriesGeoJson() up to its first await: the cached payload, or the
\* first fetch of the loop.
getCountriesGeoJson(m) ==
  /\ MapFree(m)
  /\ IF isCacheValid("countries")
     THEN /\ mret' = Returned(geoDataCache.countries)
          /\ UNCHANGED <<mcall, fetches>>
     ELSE /\ mcall' = [mcall EXCEPT ![m] = [MapIdle EXCEPT !.pc = "fetch"]]
          /\ fetches' = fetches + 1
          /\ UNCHANGED mret
  /\ UNCHANGED <<geoDataCache, clock>>
  /\ UNCHANGED <<vars, geoVars, fileVars>>

\* The attempt settled with outcome o: fetch and response.json() are awaited
\* one after the other and the call touches no state in between.
getCountriesGeoJson_fetch(m, o) ==
  /\ mcall[m].pc = "fetch"
  /\ geoDataCache' = Fetched(geoDataCache, o, clock)
  /\ IF Succeeds(o)
     THEN /\ mret' = Returned(o.data)
          /\ mcall' = [mcall EXCEPT ![m] = MapIdle]
     ELSE LET retries == mcall[m].retries + 1 IN
          IF Exhausted(retries)
          THEN /\ mret' = Rejected(retries)
               /\ mcall' = [mcall EXCEPT ![m] = MapIdle]
          ELSE /\ mcall' = [mcall EXCEPT ![m] =
                              [pc |-> "wait", retries |-> retries,
                               due |-> clock + Backoff(retries)]]
               /\ UNCHANGED mret
  /\ UNCHANGED <<fetches, mcalls, clock>>
  /\ UNCHANGED <<vars, geoVars, fileVars>>

\* The setTimeout of the backoff fired (no sooner than its delay): the loop
\* goes round and issues the next fetch.
getCountriesGeoJson_wait(m) ==
  /\ mcall[m].pc = "wait"
  /\ clock >= mcall[m].due
  /\ mcall' = [mcall EXCEPT ![m].pc = "fetch", ![m].due = 0]
  /\ fetches' = fetches + 1
  /\ UNCHANGED <<geoDataCache, mret, mcalls, clock>>
  /\ UNCHANGED <<vars, geoVars, fileVars>>

\* ----------------------------------------------- MapService: geolocation
\* The 15000 ms of the timeout timer, in clock units.
geoTimeout == 15

\* The getCurrentLocation calls of a run.
GeoSlots == {"g1", "g2"}

\* position.coords of a platform success: a precise fix and one whose
\* accuracy is worse than 10 km (which only logs a warning).
Coords(longitude, latitude, accuracy) ==
  [longitude |-> longitude, latitude |-> latitude, accuracy |-> accuracy]
PositionInputs == {Coords(139, 35, 20), Coords(135, 34, 20000)}

\* GeolocationPositionError.code
ErrorCodes == {1, 2, 3}

\* The message the error callback picks by error.code.
GeoErrorMessage(code) ==
  CASE code = 1 -> "access to the location was denied"
    [] code = 2 -> "the location could not be determined"
    [] code = 3 -> "getting the location timed out"
    [] OTHER -> "could not get the location"

\* The promise getCurrentLocation returns: its state, the value it was
\* resolved with and the message of the Error it was rejected with.
NoCoords == Coords(0, 0, 0)
Pending == [state |-> "pending", value |-> NoCoords, error |-> ""]
Fulfilled(value) == [state |-> "fulfilled", value |-> value, error |-> ""]
RejectedWith(message) == [state |-> "rejected", value |-> NoCoords, error |-> message]
\* resolve(value) and reject(new Error(message)): no effect on a promise
\* that is settled.
Resolve(promise, value) ==
  IF promise.state = "pending" THEN Fulfilled(value) ELSE promise
Reject(promise, message) ==
  IF promise.state = "pending" THEN RejectedWith(message) ELSE promise

\* clearTimeout(timeoutId): no effect on a timer that has fired.
ClearTimeout(timer) == IF timer = "pending" THEN "cleared" ELSE timer

NoGeoCall == [promise |-> Pending, timer |-> "none", due |-> 0, platform |-> "none"]

\* getCurrentLocation(): the executor of the promise.  `supported`:
\* 'geolocation' in navigator.
getCurrentLocation(g, supported) ==
  /\ geo[g] = NoGeoCall
  /\ g = "g2" => geo["g1"] # NoGeoCall
  /\ IF ~supported
     THEN geo' = [geo EXCEPT ![g].promise =
                    Reject(geo[g].promise, "the browser does not support geolocation"),
                             ![g].platform = "absent"]
     ELSE geo' = [geo EXCEPT ![g].timer = "pending", ![g].due = clock + geoTimeout,
                             ![g].platform = "asked"]
  /\ UNCHANGED <<vars, mapVars, fileVars>>

\* Mutant of getCurrentLocation_success: the timer is left running.
getCurrentLocation_success_KeepsTimer(g, coords) ==
  /\ geo[g].platform = "asked"
  /\ geo' = [geo EXCEPT ![g].promise = Resolve(geo[g].promise, coords),
                        ![g].platform = "delivered"]
  /\ UNCHANGED <<vars, mapVars, fileVars>>

\* The success callback of navigator.geolocation.getCurrentPosition.
getCurrentLocation_success(g, coords) ==
  /\ geo[g].platform = "asked"
  /\ geo' = [geo EXCEPT ![g].timer = ClearTimeout(geo[g].timer),
                        ![g].promise = Resolve(geo[g].promise, coords),
                        ![g].platform = "delivered"]
  /\ UNCHANGED <<vars, mapVars, fileVars>>

\* The error callback of navigator.geolocation.getCurrentPosition.
getCurrentLocation_error(g, code) ==
  /\ geo[g].platform = "asked"
  /\ geo' = [geo EXCEPT ![g].timer = ClearTimeout(geo[g].timer),
                        ![g].promise = Reject(geo[g].promise, GeoErrorMessage(code)),
                        ![g].platform = "delivered"]
  /\ UNCHANGED <<vars, mapVars, fileVars>>

\* The callback of setTimeout(..., 15000).
getCurrentLocation_timeout(g) ==
  /\ geo[g].timer = "pending"
  /\ clock >= geo[g].due
  /\ geo' = [geo EXCEPT ![g].timer = "fired",
                        ![g].promise = Reject(geo[g].promise,
                                              "getting the location timed out (15 s)")]
  /\ UNCHANGED <<vars, mapVars, fileVars>>

\* Time passes: up to MaxTime, and for as long as a timer is still to run.
Elapse ==
  /\ \/ clock < MaxTime
     \/ \E m \in MapSlots : mcall[m].pc = "wait" /\ clock < mcall[m].due
     \/ \E g \in GeoSlots : geo[g].timer = "pending" /\ clock < geo[g].due
  /\ clock' = clock + 1
  /\ UNCHANGED <<geoDataCache, mcall, mret, fetches, mcalls>>
  /\ UNCHANGED <<vars, geoVars, fileVars>>

\* The state of the MapService apart from its cache.
MapServiceIdle ==
  /\ mcall = [m \in MapSlots |-> MapIdle]
  /\ mret = NoMapResult
  /\ fetches = 0
  /\ mcalls = 0
  /\ clock = 0
  /\ geo = [g \in GeoSlots |-> NoGeoCall]

\* ------------------------------------------------------------------ Init
InitialStores ==
  { {},
    {Row(Str("JP"), Str("Japan"), Str("Country"), OldDate)} }

StoreInit ==
  /\ db \in InitialStores
  /\ visitedPlaces = <<>>
  /\ selectedPlace = Undef
  /\ isLoading = FALSE
  /\ error = NoError
  /\ toast = [show |-> FALSE, message |-> Text(""), type |-> "info"]
  /\ timers = 0
  /\ download = NoDownload
  /\ call = [s \in Slots |-> Idle]
  /\ txq = <<>>
  /\ ret = "none"
  /\ dbResult = NoResult
  /\ calls = 0
  /\ initialized = FALSE
  /\ now = 1

\* The store as created, and the MapService as constructed.
\* ------------------------------------------------------------ FileService
\* The longest CSV of a run, in data lines.
MaxRows == 2

requiredFields == <<"uniqueId", "placeName", "adminLevel">>
defaultFields ==
  <<"uniqueId", "placeName", "adminLevel", "dateMarked", "countryCodeISO", "regionCodeISO">>

\* The properties a parsed row can have.
Fields == {"uniqueId", "placeName", "adminLevel", "dateMarked", "countryCodeISO",
           "regionCodeISO", "id", "name"}

IsoDate == "2023-10-01T00:00:00.000Z"

\* value.trim(), on the cell texts of the model.
Trim(text) ==
  CASE text = " 1 " -> "1"
    [] text = " Tokyo" -> "Tokyo"
    [] text = "Prefecture " -> "Prefecture"
    [] OTHER -> text

\* The header lines and the data lines a CSV is made of: a line is the
\* sequence of its cells.
Headers ==
  { <<"uniqueId", "placeName", "adminLevel", "dateMarked">>,
    <<"uniqueId", "placeName", "adminLevel">>,
    <<"adminLevel", "uniqueId", "placeName">>,
    <<"id", "name">>,
    <<"uniqueId", "name">>,
    <<"id">> }
LineInputs ==
  { <<"1", "Tokyo", "Prefecture", IsoDate>>,
    <<" 1 ", " Tokyo", "Prefecture ">>,
    <<"007", "Osaka", "City">>,
    <<"0", "Tokyo", "Prefecture">>,
    <<"JP", "TRUE", "Country">>,
    <<"JP", "Japan", "Country">>,
    <<"", "Kyoto", "City">>,
    <<"2", "Nara">>,
    <<"3">>,
    <<"1.0", "Kobe", "City", "">> }

\* A File: its type, whether the FileReader can read it, whether its text
\* is blank, its header and data lines, whether a quoted cell is malformed.
File(type, readable, blank, header, lines, quotes) ==
  [kind |-> "file", type |-> type, readable |-> readable, blank |-> blank,
   header |-> header, lines |-> lines, quotes |-> quotes]
\* No File (null).
NoFile == [File("", TRUE, TRUE, <<>>, <<>>, FALSE) EXCEPT !.kind = "null"]

\* The files handed to parseCSV.
UploadInputs ==
  { NoFile,
    File("image/png", TRUE, FALSE, <<"id", "name">>, <<>>, FALSE),
    File("text/csv", FALSE, FALSE, <<"id", "name">>, <<>>, FALSE),
    File("text/csv", TRUE, TRUE, <<>>, <<>>, FALSE) }
  \cup { File(type, TRUE, FALSE, header, lines, quotes) :
           type \in {"text/csv"}, header \in Headers, quotes \in BOOLEAN,
           lines \in UNION {[1..n -> LineInputs] : n \in 0..MaxRows} }

\* Papa's dynamicTyping: the texts its FLOAT pattern matches, and parseFloat.
FloatTexts == {"0", "1", " 1 ", "2", "3", "007", "1.0"}
ParseFloat(text) ==
  CASE text = "007" -> "7"
    [] text = "1.0" -> "1"
    [] text = " 1 " -> "1"
    [] OTHER -> text
DynamicTyping(text) ==
  CASE text \in {"true", "TRUE"} -> Bool("true")
    [] text \in {"false", "FALSE"} -> Bool("false")
    [] text \in FloatTexts -> Num(ParseFloat(text))
    [] text = IsoDate -> [k |-> "date", v |-> text]
    [] text = "" -> Null
    [] OTHER -> Str(text)

\* String(value)
StringOf(x) ==
  CASE x.k = "null" -> "null"
    [] x.k = "undefined" -> "undefined"
    [] x.k = "date" -> "Sun Oct 01 2023 00:00:00 GMT+0000"
    [] OTHER -> x.v

\* Array.prototype.includes
Includes(seq, x) == \E i \in 1..Len(seq) : seq[i] = x
IndexOf(seq, x) == CHOOSE i \in 1..Len(seq) : seq[i] = x

\* The object Papa builds from a data line under header: true, with the
\* transform and then dynamicTyping applied to each cell.
RowObject(header, line) ==
  [field \in Fields |->
     IF Includes(header, field) /\ IndexOf(header, field) <= Len(line)
     THEN DynamicTyping(Trim(line[IndexOf(header, field)]))
     ELSE Undef]

RECURSIVE CellCount(_)
CellCount(lines) ==
  IF Len(lines) = 0 THEN 0 ELSE Len(Head(lines)) + CellCount(Tail(lines))

\* Papa's guessDelimiter fails unless the lines average more than 1.99 cells.
UndetectableDelimiter(f) ==
  100 * (Len(f.header) + CellCount(f.lines)) <= 199 * (1 + Len(f.lines))

\* Papa.parse(cleanContent, {header, dynamicTyping, transform, ...}): data,
\* the types of the errors, meta.fields.
PapaParse(f) ==
  [data |-> [i \in 1..Len(f.lines) |-> RowObject(f.header, f.lines[i])],
   errors |-> (IF f.quotes THEN {"Quotes"} ELSE {})
              \cup (IF UndetectableDelimiter(f) THEN {"Delimiter"} ELSE {})
              \cup (IF \E i \in 1..Len(f.lines) : Len(f.lines[i]) # Len(f.header)
                    THEN {"FieldMismatch"} ELSE {}),
   fields |-> f.header]

criticalErrors(errors) == errors \ {"FieldMismatch"}

\* Mutant of missingFields: names only the first absent field.
missingFields_FirstOnly(fields) ==
  LET missing == SelectSeq(requiredFields, LAMBDA field : ~Includes(fields, field))
  IN  IF Len(missing) = 0 THEN missing ELSE <<Head(missing)>>

missingFields(fields) ==
  SelectSeq(requiredFields, LAMBDA field : ~Includes(fields, field))

\* row.uniqueId && row.placeName && row.adminLevel
KeepsRow(row) == Truthy(row.uniqueId) /\ Truthy(row.placeName) /\ Truthy(row.adminLevel)

\* The map callback of validData.
Shaped(row) ==
  [row EXCEPT !.uniqueId = Str(Trim(StringOf(row.uniqueId))),
              !.placeName = Str(Trim(StringOf(row.placeName))),
              !.adminLevel = Str(Trim(StringOf(row.adminLevel))),
              !.dateMarked = OrElse(row.dateMarked, ToISOString(1))]

validData(data) ==
  LET kept == SelectSeq(data, KeepsRow)
  IN  [i \in 1..Len(kept) |-> Shaped(kept[i])]

\* How the promise of parseCSV settles.
ParseSettled(status, reason, missing, data, invalidRows) ==
  [status |-> status, error |-> reason, missing |-> missing, data |-> data,
   invalidRows |-> invalidRows]
NotParsed == ParseSettled("none", "", <<>>, <<>>, 0)
ParseRejected(reason, missing) == ParseSettled("rejected", reason, missing, <<>>, 0)

ParseCSV(f) ==
  IF f.kind = "null" THEN ParseRejected("no file selected", <<>>)
  ELSE IF f.type \notin {"", "text/csv", "application/vnd.ms-excel", "text/plain"}
  THEN ParseRejected("unsupported file type", <<>>)
  ELSE IF ~f.readable THEN ParseRejected("failed to read the file", <<>>)
  ELSE IF f.blank THEN ParseRejected("the file is empty", <<>>)
  ELSE LET r == PapaParse(f) IN
    IF criticalErrors(r.errors) # {} THEN ParseRejected("parse error", <<>>)
    ELSE IF Len(missingFields(r.fields)) > 0
    THEN ParseRejected("required fields are missing", missingFields(r.fields))
    ELSE IF Len(validData(r.data)) = 0 THEN ParseRejected("no valid data", <<>>)
    ELSE ParseSettled("resolved", "", <<>>, validData(r.data),
                      Len(r.data) - Len(validData(r.data)))

\* parseCSV(file), up to the settling of its promise.
parseCSV ==
  /\ parsed.status = "none"
  /\ parsed' = ParseCSV(upload)
  /\ UNCHANGED <<upload, generated>>
  /\ UNCHANGED <<vars, mapVars, geoVars>>

\* What Papa.unparse writes for a value, between the quotes.
Unparse(x) == IF x.k \in {"null", "undefined"} THEN "" ELSE x.v

\* item[field] !== null && item[field] !== undefined ? item[field] : ''
Clean(x) == IF x.k \in {"null", "undefined"} THEN Str("") ELSE x

NotGenerated == [status |-> "none", fields |-> <<>>, rows |-> <<>>]
GenerateCSV(data) ==
  IF Len(data) = 0
  THEN [status |-> "thrown", fields |-> <<>>, rows |-> <<>>]
  ELSE [status |-> "returned", fields |-> defaultFields,
        rows |-> [i \in 1..Len(data) |->
                    [field \in {defaultFields[j] : j \in 1..Len(defaultFields)} |->
                       Unparse(Clean(data[i][field]))]]]

\* generateCSV(result.data), or generateCSV([]) when parseCSV rejected.
generateCSV ==
  /\ parsed.status # "none"
  /\ generated.status = "none"
  /\ generated' = GenerateCSV(parsed.data)
  /\ UNCHANGED <<upload, parsed>>
  /\ UNCHANGED <<vars, mapVars, geoVars>>

FileServiceIdle == upload = NoFile /\ parsed = NotParsed /\ generated = NotGenerated

Init ==
  /\ StoreInit
  /\ geoDataCache = NewCache
  /\ MapServiceIdle
  /\ FileServiceIdle

\* --------------------------------------------------------- initializeStore
initializeStore(s) ==
  /\ Free(s)
  /\ isLoading' = TRUE
  /\ call' = [call EXCEPT ![s] = [Idle EXCEPT !.op = "initializeStore", !.pc = "getAll"]]
  /\ txq' = Append(txq, s)
  /\ UNCHANGED <<db, visitedPlaces, selectedPlace, error, toast, timers, download, ret, dbResult, now>>
  /\ UNCHANGED initialized
  /\ UNCHANGED serviceVars

\* Mutant of initializeStore_getAll: the catch block does not reset isLoading.
initializeStore_getAll_KeepsLoading(s, ok) ==
  /\ call[s].op = "initializeStore" /\ call[s].pc = "getAll"
  /\ IF ok
     THEN /\ Head(txq) = s
          /\ visitedPlaces' = GetAll(db)
          /\ isLoading' = FALSE
          /\ UNCHANGED <<error, toast>>
     ELSE LET errorMessage == formatErrorMessage(DbError, "failed to load the data") IN
          /\ error' = errorMessage
          /\ toast' = ErrorToast(errorMessage)
          /\ UNCHANGED <<visitedPlaces, isLoading>>
  /\ txq' = Without(txq, s)
  /\ call' = [call EXCEPT ![s] = Idle]
  /\ ret' = withErrorHandling(FALSE)
  /\ UNCHANGED <<db, selectedPlace, timers, download, calls, dbResult, now>>
  /\ initialized' = (initialized \/ ok)
  /\ UNCHANGED serviceVars

\* db.getAll resolved (ok) or `await dbPromise` / db.getAll rejected.
initializeStore_getAll(s, ok) ==
  /\ call[s].op = "initializeStore" /\ call[s].pc = "getAll"
  /\ IF ok
     THEN /\ Head(txq) = s
          /\ visitedPlaces' = GetAll(db)
          /\ isLoading' = FALSE
          /\ UNCHANGED <<error, toast>>
     ELSE LET errorMessage == formatErrorMessage(DbError, "failed to load the data") IN
          /\ error' = errorMessage
          /\ isLoading' = FALSE
          /\ toast' = ErrorToast(errorMessage)
          /\ UNCHANGED visitedPlaces
  /\ txq' = Without(txq, s)
  /\ call' = [call EXCEPT ![s] = Idle]
  /\ ret' = withErrorHandling(FALSE)
  /\ UNCHANGED <<db, selectedPlace, timers, download, calls, dbResult, now>>
  /\ initialized' = (initialized \/ ok)
  /\ UNCHANGED serviceVars

\* ------------------------------------------------------ markPlaceAsVisited
\* Mutant of ValidPlace: adminLevel is not checked.
ValidPlace_IgnoresAdminLevel(p) == Truthy(p.uniqueId) /\ Truthy(p.placeName)

ValidPlace(p) == Truthy(p.uniqueId) /\ Truthy(p.placeName) /\ Truthy(p.adminLevel)

NewPlace(p, t) ==
  [uniqueId |-> p.uniqueId, placeName |-> p.placeName, adminLevel |-> p.adminLevel,
   dateMarked |-> ToISOString(t),
   countryCodeISO |-> OrElse(p.countryCodeISO, SplitHead(p.uniqueId)),
   regionCodeISO |-> OrElse(p.regionCodeISO, p.uniqueId)]

markPlaceAsVisited(s, p) ==
  /\ Free(s)
  /\ IF ~ValidPlace(p)
     THEN /\ error' = "required information is missing"
          /\ toast' = ErrorToast("required information is missing")
          /\ ret' = withErrorHandling(FALSE)
          /\ UNCHANGED <<isLoading, call, txq>>
     ELSE /\ isLoading' = TRUE
          /\ call' = [call EXCEPT ![s] =
                        [Idle EXCEPT !.op = "markPlaceAsVisited", !.pc = "put",
                                     !.rec = NewPlace(p, now)]]
          /\ txq' = Append(txq, s)
          /\ UNCHANGED <<error, toast, ret>>
  /\ UNCHANGED <<db, visitedPlaces, selectedPlace, timers, download, dbResult, now>>
  /\ UNCHANGED initialized
  /\ UNCHANGED serviceVars

\* [...get().visitedPlaces, newPlace]
WithPlace(list, newPlace) == Append(list, newPlace)

\* Mutant of markPlaceAsVisited_put: the list and the selection are updated
\* before the write is known to have succeeded.
markPlaceAsVisited_put_Optimistic(s, ok) ==
  /\ call[s].op = "markPlaceAsVisited" /\ call[s].pc = "put"
  /\ IF ok
     THEN /\ Head(txq) = s
          /\ db' = Put(db, call[s].rec)
          /\ visitedPlaces' = WithPlace(visitedPlaces, call[s].rec)
          /\ isLoading' = FALSE
          /\ selectedPlace' = call[s].rec
          /\ toast' = [show |-> TRUE,
                       message |-> Message("registered as visited", call[s].rec.placeName.v, 0, 0),
                       type |-> "success"]
          /\ timers' = timers + 1
          /\ UNCHANGED error
     ELSE LET errorMessage == formatErrorMessage(DbError, "failed to save the visited place") IN
          /\ error' = errorMessage
          /\ isLoading' = FALSE
          /\ toast' = ErrorToast(errorMessage)
          /\ visitedPlaces' = WithPlace(visitedPlaces, call[s].rec)
          /\ selectedPlace' = call[s].rec
          /\ UNCHANGED <<db, timers>>
  /\ txq' = Without(txq, s)
  /\ call' = [call EXCEPT ![s] = Idle]
  /\ ret' = withErrorHandling(FALSE)
  /\ UNCHANGED <<download, calls, dbResult, now>>
  /\ UNCHANGED initialized
  /\ UNCHANGED serviceVars

\* tx.store.put and tx.done resolved (ok), or one of the awaits rejected.
markPlaceAsVisited_put(s, ok) ==
  /\ call[s].op = "markPlaceAsVisited" /\ call[s].pc = "put"
  /\ IF ok
     THEN /\ Head(txq) = s
          /\ db' = Put(db, call[s].rec)
          /\ visitedPlaces' = WithPlace(visitedPlaces, call[s].rec)
          /\ isLoading' = FALSE
          /\ selectedPlace' = call[s].rec
          /\ toast' = [show |-> TRUE,
                       message |-> Message("registered as visited", call[s].rec.placeName.v, 0, 0),
                       type |-> "success"]
          /\ timers' = timers + 1
          /\ UNCHANGED error
     ELSE LET errorMessage == formatErrorMessage(DbError, "failed to save the visited place") IN
          /\ error' = errorMessage
          /\ isLoading' = FALSE
          /\ toast' = ErrorToast(errorMessage)
          /\ UNCHANGED <<db, visitedPlaces, selectedPlace, timers>>
  /\ txq' = Without(txq, s)
  /\ call' = [call EXCEPT ![s] = Idle]
  /\ ret' = withErrorHandling(FALSE)
  /\ UNCHANGED <<download, calls, dbResult, now>>
  /\ UNCHANGED initialized
  /\ UNCHANGED serviceVars

\* -------------------------------------------------------- removePlaceVisit
removePlaceVisit(s, uniqueId) ==
  /\ Free(s)
  /\ isLoading' = TRUE
  /\ call' = [call EXCEPT ![s] =
                [Idle EXCEPT !.op = "removePlaceVisit", !.pc = "delete", !.id = uniqueId]]
  /\ txq' = Append(txq, s)
  /\ UNCHANGED <<db, visitedPlaces, selectedPlace, error, toast, timers, download, ret, dbResult, now>>
  /\ UNCHANGED initialized
  /\ UNCHANGED serviceVars

\* Mutant of WithoutPlace: only the first record of the uniqueId is taken out.
RECURSIVE WithoutPlace_FirstOnly(_, _)
WithoutPlace_FirstOnly(list, uniqueId) ==
  IF list = <<>> THEN <<>>
  ELSE IF Head(list).uniqueId = uniqueId THEN Tail(list)
  ELSE <<Head(list)>> \o WithoutPlace_FirstOnly(Tail(list), uniqueId)

\* get().visitedPlaces.filter(place => place.uniqueId !== uniqueId)
WithoutPlace(list, uniqueId) == SelectSeq(list, LAMBDA place : place.uniqueId # uniqueId)

\* tx.store.delete and tx.done resolved (ok), or one of the awaits rejected.
removePlaceVisit_delete(s, ok) ==
  /\ call[s].op = "removePlaceVisit" /\ call[s].pc = "delete"
  /\ IF ok
     THEN /\ Head(txq) = s
          /\ db' = Delete(db, call[s].id)
          /\ visitedPlaces' = WithoutPlace(visitedPlaces, call[s].id)
          /\ isLoading' = FALSE
          /\ toast' = [show |-> TRUE, message |-> Text("removed the visit record"),
                       type |-> "info"]
          /\ timers' = timers + 1
          /\ UNCHANGED error
     ELSE LET errorMessage == formatErrorMessage(DbError, "failed to remove the visit record") IN
          /\ error' = errorMessage
          /\ isLoading' = FALSE
          /\ toast' = ErrorToast(errorMessage)
          /\ UNCHANGED <<db, visitedPlaces, timers>>
  /\ txq' = Without(txq, s)
  /\ call' = [call EXCEPT ![s] = Idle]
  /\ ret' = withErrorHandling(FALSE)
  /\ UNCHANGED <<selectedPlace, download, calls, dbResult, now>>
  /\ UNCHANGED initialized
  /\ UNCHANGED serviceVars

\* ------------------------------------------------------------- showToast
\* set({ toast: { show: true, message, type } }); setTimeout(..., 3000)
ShowToast(message, type) ==
  /\ toast' = [show |-> TRUE, message |-> Text(message), type |-> type]
  /\ timers' = timers + 1

\* A view shows a toast of its own (ListView: the navigation failed).
showToast(message, type) ==
  /\ Invoked
  /\ ShowToast(message, type)
  /\ UNCHANGED <<db, visitedPlaces, selectedPlace, isLoading, error, download, call, txq,
                 ret, dbResult, now>>
  /\ UNCHANGED initialized
  /\ UNCHANGED serviceVars

\* ------------------------------------------------------------ exportToCSV
\* Mutant of exportToCSV: the body is not wrapped in withErrorHandling, so
\* the re-thrown error leaves the action.
exportToCSV_Unwrapped(throws) ==
  /\ Invoked
  /\ IF Len(visitedPlaces) = 0
     THEN /\ ShowToast("no data to export", "warning")
          /\ ret' = withErrorHandling(FALSE)
          /\ UNCHANGED download
     ELSE IF ~throws
     THEN /\ download' = visitedPlaces
          /\ ShowToast("exported the CSV file", "success")
          /\ ret' = withErrorHandling(FALSE)
     ELSE \* catch: showToast(errorMessage, 'error'); throw error
          /\ toast' = [show |-> TRUE,
                       message |-> Text(formatErrorMessage(DomError, "failed to export")),
                       type |-> "error"]
          /\ timers' = timers + 1
          /\ ret' = "rejected"
          /\ UNCHANGED download
  /\ UNCHANGED <<db, visitedPlaces, selectedPlace, isLoading, error, call, txq, dbResult, now>>
  /\ UNCHANGED initialized
  /\ UNCHANGED serviceVars

\* Mutant of exportToCSV: the empty list is exported like any other.
exportToCSV_NoEmptyCheck(throws) ==
  /\ Invoked
  /\ IF ~throws
     THEN /\ download' = visitedPlaces
          /\ ShowToast("exported the CSV file", "success")
          /\ ret' = withErrorHandling(FALSE)
     ELSE /\ toast' = [show |-> TRUE,
                       message |-> Text(formatErrorMessage(DomError, "error during export")),
                       type |-> "error"]
          /\ timers' = timers + 2
          /\ ret' = withErrorHandling(TRUE)
          /\ UNCHANGED download
  /\ UNCHANGED <<db, visitedPlaces, selectedPlace, isLoading, error, call, txq, dbResult, now>>
  /\ UNCHANGED initialized
  /\ UNCHANGED serviceVars

\* The wrapped body of exportToCSV; `throws`: unparse, Blob or the DOM throws.
exportToCSV(throws) ==
  /\ Invoked
  /\ IF Len(visitedPlaces) = 0
     THEN /\ ShowToast("no data to export", "warning")
          /\ ret' = withErrorHandling(FALSE)
          /\ UNCHANGED download
     ELSE IF ~throws
     THEN /\ download' = visitedPlaces
          /\ ShowToast("exported the CSV file", "success")
          /\ ret' = withErrorHandling(FALSE)
     ELSE \* catch: showToast(errorMessage, 'error'); throw error; then onError:
          \* showToast(formatErrorMessage(error, ...), 'error')
          /\ toast' = [show |-> TRUE,
                       message |-> Text(formatErrorMessage(DomError, "error during export")),
                       type |-> "error"]
          /\ timers' = timers + 2
          /\ ret' = withErrorHandling(TRUE)
          /\ UNCHANGED download
  /\ UNCHANGED <<db, visitedPlaces, selectedPlace, isLoading, error, call, txq, dbResult, now>>
  /\ UNCHANGED initialized
  /\ UNCHANGED serviceVars

\* ----------------------------------------------------------- importFromCSV
importFromCSV(s, file) ==
  /\ Free(s)
  /\ IF file = ""
     THEN /\ ShowToast("select a file", "warning")
          /\ ret' = withErrorHandling(FALSE)
          /\ UNCHANGED <<isLoading, call>>
     ELSE /\ isLoading' = TRUE
          /\ call' = [call EXCEPT ![s] =
                        [Idle EXCEPT !.op = "importFromCSV", !.pc = "read", !.file = file]]
          /\ UNCHANGED <<toast, timers, ret>>
  /\ UNCHANGED <<db, visitedPlaces, selectedPlace, error, download, txq, dbResult, now>>
  /\ UNCHANGED initialized
  /\ UNCHANGED serviceVars

\* Mutant of ValidRow: placeName is not checked.
ValidRow_IgnoresPlaceName(row) == Truthy(row.uniqueId) /\ Truthy(row.adminLevel)

\* data.filter(row => row.uniqueId && row.placeName && row.adminLevel)
ValidRow(row) == Truthy(row.uniqueId) /\ Truthy(row.placeName) /\ Truthy(row.adminLevel)
ValidData(data) == SelectSeq(data, ValidRow)

\* The catch block of importFromCSV.
ImportFailed(s, e) ==
  LET errorMessage == formatErrorMessage(e, "import failed") IN
  /\ error' = errorMessage
  /\ isLoading' = FALSE
  /\ toast' = ErrorToast(errorMessage)
  /\ call' = [call EXCEPT ![s] = Idle]
  /\ txq' = Without(txq, s)
  /\ ret' = withErrorHandling(FALSE)

\* Mutant of IngestError: the errors Papa.parse reports are not looked at.
IngestError_IgnoresParseErrors(f) ==
  IF ~f.readable THEN "failed to read the file"
  ELSE IF Len(ValidData(f.data)) = 0 THEN "no valid data found"
  ELSE ""

\* The error thrown while reading, parsing and validating, "" when none.
IngestError(f) ==
  IF ~f.readable THEN "failed to read the file"
  ELSE IF f.errors THEN "error while parsing the CSV"
  ELSE IF Len(ValidData(f.data)) = 0 THEN "no valid data found"
  ELSE ""

\* FileReader fired onload or onerror; parse, validate, open the transaction.
importFromCSV_read(s) ==
  /\ call[s].op = "importFromCSV" /\ call[s].pc = "read"
  /\ LET f == FileContents(call[s].file) IN
     IF IngestError(f) # ""
     THEN ImportFailed(s, IngestError(f))
     ELSE /\ call' = [call EXCEPT ![s].pc = "write", ![s].rows = ValidData(f.data)]
          /\ txq' = Append(txq, s)
          /\ UNCHANGED <<error, isLoading, toast, ret>>
  /\ UNCHANGED <<db, visitedPlaces, selectedPlace, timers, download, calls, dbResult, now>>
  /\ UNCHANGED initialized
  /\ UNCHANGED serviceVars

\* Mutant of PutRows: the first put that throws ends the loop.
RECURSIVE PutRows_StopsAtFailure(_, _, _, _)
PutRows_StopsAtFailure(store, rows, failed, i) ==
  IF i > Len(rows) \/ i \in failed THEN store
  ELSE PutRows_StopsAtFailure(Put(store, rows[i]), rows, failed, i + 1)

\* The store after the loop `for (const row of validData)`: the rows whose
\* put did not throw are written in order.
RECURSIVE PutRows(_, _, _, _)
PutRows(store, rows, failed, i) ==
  IF i > Len(rows) THEN store
  ELSE PutRows(IF i \in failed THEN store ELSE Put(store, rows[i]), rows, failed, i + 1)

\* The rows whose put has to throw: IndexedDB takes no such key.
BadKeys(rows) == {i \in 1..Len(rows) : ~ValidKey(rows[i].uniqueId)}

\* The write loop ran and tx.done resolved (ok), or `await dbPromise`,
\* db.transaction or tx.done failed.  A put throws (and the loop goes on)
\* exactly for the rows IndexedDB takes no key from; a put whose request
\* fails aborts the transaction, which is the case ~ok.
importFromCSV_write(s, ok) ==
  /\ call[s].op = "importFromCSV" /\ call[s].pc = "write"
  /\ IF ok
     THEN LET failed == BadKeys(call[s].rows) IN
          /\ Head(txq) = s
          /\ db' = PutRows(db, call[s].rows, failed, 1)
          /\ call' = [call EXCEPT ![s].pc = "getAll",
                                  ![s].success = Len(call[s].rows) - Cardinality(failed),
                                  ![s].skipped = Cardinality(failed)]
          /\ txq' = Append(Tail(txq), s)
          /\ UNCHANGED <<error, isLoading, toast, ret>>
     ELSE /\ ImportFailed(s, DbError)
          /\ UNCHANGED db
  /\ UNCHANGED <<visitedPlaces, selectedPlace, timers, download, calls, dbResult, now>>
  /\ UNCHANGED initialized
  /\ UNCHANGED serviceVars

\* Mutant of Reloaded: the rows are merged into the list held in memory.
Reloaded_LocalMerge(list, store, rows) == list \o rows

\* const visitedPlaces = await db.getAll('visitedPlaces'): the new list, given
\* the old one, the object store and the imported rows.
Reloaded(list, store, rows) == GetAll(store)

\* db.getAll after the bulk write resolved (ok) or rejected.
importFromCSV_getAll(s, ok) ==
  /\ call[s].op = "importFromCSV" /\ call[s].pc = "getAll"
  /\ IF ok
     THEN /\ Head(txq) = s
          /\ visitedPlaces' = Reloaded(visitedPlaces, db, call[s].rows)
          /\ isLoading' = FALSE
          /\ toast' = [show |-> TRUE,
                       message |-> Message("import complete", "", call[s].success,
                                           call[s].skipped),
                       type |-> "success"]
          /\ call' = [call EXCEPT ![s] = Idle]
          /\ txq' = Without(txq, s)
          /\ ret' = withErrorHandling(FALSE)
          /\ UNCHANGED error
     ELSE /\ ImportFailed(s, DbError)
          /\ UNCHANGED visitedPlaces
  /\ UNCHANGED <<db, selectedPlace, timers, download, calls, dbResult, now>>
  /\ UNCHANGED initialized
  /\ UNCHANGED serviceVars

\* ------------------------------------------------------------ the setters
\* Mutant of clearError: the toast is hidden along with the error.
clearError_HidesToast ==
  /\ Invoked
  /\ error' = NoError
  /\ toast' = [toast EXCEPT !.show = FALSE]
  /\ UNCHANGED <<db, visitedPlaces, selectedPlace, isLoading, timers, download,
                 call, txq, ret, dbResult, now>>
  /\ UNCHANGED initialized
  /\ UNCHANGED serviceVars

clearError ==
  /\ Invoked
  /\ error' = NoError
  /\ UNCHANGED <<db, visitedPlaces, selectedPlace, isLoading, toast, timers, download,
                 call, txq, ret, dbResult, now>>
  /\ UNCHANGED initialized
  /\ UNCHANGED serviceVars

\* The callback of setTimeout(..., 3000): toast: { ...state.toast, show: false }.
dismissToast ==
  /\ timers > 0
  /\ timers' = timers - 1
  /\ toast' = [toast EXCEPT !.show = FALSE]
  /\ UNCHANGED <<db, visitedPlaces, selectedPlace, isLoading, error, download, call, txq,
                 ret, calls, dbResult, now>>
  /\ UNCHANGED initialized
  /\ UNCHANGED serviceVars

\* The wall clock advances.
Tick ==
  /\ now < MaxClock
  /\ now' = now + 1
  /\ UNCHANGED <<db, visitedPlaces, selectedPlace, isLoading, error, toast, timers,
                 download, call, txq, ret, dbResult, calls>>
  /\ UNCHANGED initialized
  /\ UNCHANGED serviceVars

\* --------------------------------------------------------------- DBService
\* dbService.deleteVisitedPlace(uniqueId): delete in a transaction of its own;
\* `ok`: dbPromise, the request and tx.done all resolved.
deleteVisitedPlace(uniqueId, ok) ==
  /\ Invoked
  /\ txq = <<>>
  /\ IF ok
     THEN /\ db' = Delete(db, uniqueId)
          /\ dbResult' = [NoResult EXCEPT !.status = "resolved"]
     ELSE /\ dbResult' = [NoResult EXCEPT !.status = "rejected"]
          /\ UNCHANGED db
  /\ UNCHANGED <<visitedPlaces, selectedPlace, isLoading, error, toast, timers, download,
                 call, txq, ret, now>>
  /\ UNCHANGED initialized
  /\ UNCHANGED serviceVars

\* dbService.bulkSaveVisitedPlaces(placesData): the same loop as importFromCSV;
\* `ok`: dbPromise, db.transaction and tx.done succeeded.
bulkSaveVisitedPlaces(placesData, ok) ==
  /\ Invoked
  /\ txq = <<>>
  /\ IF ok
     THEN LET failed == BadKeys(placesData) IN
          /\ db' = PutRows(db, placesData, failed, 1)
          /\ dbResult' = [status |-> "resolved",
                          success |-> Len(placesData) - Cardinality(failed),
                          skipped |-> Cardinality(failed)]
     ELSE /\ dbResult' = [NoResult EXCEPT !.status = "rejected"]
          /\ UNCHANGED db
  /\ UNCHANGED <<visitedPlaces, selectedPlace, isLoading, error, toast, timers, download,
                 call, txq, ret, now>>
  /\ UNCHANGED initialized
  /\ UNCHANGED serviceVars

\* The arrays passed to bulkSaveVisitedPlaces.
BulkInputs == {ValidData(FileContents("places.csv").data)}

DbNext ==
  \/ \E id \in IdInputs, ok \in BOOLEAN : deleteVisitedPlace(id, ok)
  \/ \E rows \in BulkInputs, ok \in BOOLEAN : bulkSaveVisitedPlaces(rows, ok)

\* ------------------------------------------------------------------- Next
Next ==
  \/ \E s \in Slots : initializeStore(s)
  \/ \E s \in Slots, ok \in BOOLEAN : initializeStore_getAll(s, ok)
  \/ \E s \in Slots, p \in PlaceInputs : markPlaceAsVisited(s, p)
  \/ \E s \in Slots, ok \in BOOLEAN : markPlaceAsVisited_put(s, ok)
  \/ \E s \in Slots, id \in IdInputs : removePlaceVisit(s, id)
  \/ \E s \in Slots, ok \in BOOLEAN : removePlaceVisit_delete(s, ok)
  \/ \E s \in Slots, file \in FileInputs : importFromCSV(s, file)
  \/ \E s \in Slots : importFromCSV_read(s)
  \/ \E s \in Slots, ok \in BOOLEAN : importFromCSV_write(s, ok)
  \/ \E s \in Slots, ok \in BOOLEAN : importFromCSV_getAll(s, ok)
  \/ \E throws \in BOOLEAN : exportToCSV(throws)
  \/ showToast("failed to move to the map", "error")
  \/ clearError
  \/ dismissToast
  \/ Tick

Spec == Init /\ [][Next]_vars

\* The store and the DBService on the same object store.
SpecDb == Init /\ [][Next \/ DbNext]_vars

\* The MapService on its own, from either cache.
MapNext ==
  \/ \E m \in MapSlots : getCountriesGeoJson(m)
  \/ \E m \in MapSlots, o \in FetchOutcomes : getCountriesGeoJson_fetch(m, o)
  \/ \E m \in MapSlots : getCountriesGeoJson_wait(m)
  \/ \E cacheKey \in KeyInputs \cup {NoKey} : clearCache(cacheKey)
  \/ Elapse

InitMap ==
  /\ StoreInit /\ db = {}
  /\ geoDataCache \in InitialCaches
  /\ MapServiceIdle
  /\ FileServiceIdle

SpecMap == InitMap /\ [][MapNext]_mapVars

\* getCurrentLocation on its own.
GeoNext ==
  \/ \E g \in GeoSlots, supported \in BOOLEAN : getCurrentLocation(g, supported)
  \/ \E g \in GeoSlots, coords \in PositionInputs : getCurrentLocation_success(g, coords)
  \/ \E g \in GeoSlots, code \in ErrorCodes : getCurrentLocation_error(g, code)
  \/ \E g \in GeoSlots : getCurrentLocation_timeout(g)
  \/ Elapse

InitGeo ==
  /\ StoreInit /\ db = {}
  /\ geoDataCache = NewCache
  /\ MapServiceIdle
  /\ FileServiceIdle

SpecGeo == InitGeo /\ [][GeoNext]_<<geoVars, clock>>

\* The FileService on its own, on each of the files.
FileNext ==
  \/ parseCSV
  \/ generateCSV

InitFile ==
  /\ StoreInit /\ db = {}
  /\ geoDataCache = NewCache
  /\ MapServiceIdle
  /\ upload \in UploadInputs
  /\ parsed = NotParsed
  /\ generated = NotGenerated

SpecFile == InitFile /\ [][FileNext]_fileVars

\* ----------------------------------------------------------------- claims
\* How many records of the list carry the uniqueId.
CountId(list, id) == Len(SelectSeq(list, LAMBDA r : r.uniqueId = id))
InList(list) == {list[i] : i \in 1..Len(list)}
WithId(store, id) == {r \in store : r.uniqueId = id}
\* A field that is missing or empty.
Missing(x) == x = Undef \/ x = Str("")
Complete(p) == ~Missing(p.uniqueId) /\ ~Missing(p.placeName) /\ ~Missing(p.adminLevel)
Japan == Row(Str("JP"), Str("Japan"), Str("Country"), OldDate)
Tokyo == Row(Num("1"), Str("Tokyo"), Str("Prefecture"), Undef)

\* C1: when a markPlaceAsVisited succeeds, the in-memory list holds exactly
\* one record with the marked uniqueId and so does the durable store (a
\* uniqueId marked before is replaced, not added a second time).
C1_OneRecordPerMarkedId ==
  [][\A s \in Slots :
       markPlaceAsVisited_put(s, TRUE) =>
         /\ CountId(visitedPlaces', call[s].rec.uniqueId) = 1
         /\ Cardinality(WithId(db', call[s].rec.uniqueId)) = 1]_vars

\* C2: every record of the durable store has a non-empty uniqueId, placeName
\* and adminLevel, whatever store actions ran.
C2_StoredRecordsComplete == \A r \in db : Complete(r)

\* C2 witness: an import of places.csv (which has a row without placeName)
\* and a markPlaceAsVisited have both written.
C2_Witness ==
  /\ Tokyo \in db
  /\ \E r \in db : r.placeName = Str("California")
  /\ \A s \in Slots : call[s].pc = "idle"

\* C3: markPlaceAsVisited with a missing or empty uniqueId, placeName or
\* adminLevel issues no write (no transaction, the store untouched), leaves
\* visitedPlaces, selectedPlace and isLoading alone, and sets error and an
\* error toast.
C3_InvalidMarkFailsFast ==
  [][\A s \in Slots, p \in PlaceInputs :
       (~Complete(p) /\ markPlaceAsVisited(s, p)) =>
         /\ UNCHANGED <<db, txq, call, visitedPlaces, selectedPlace, isLoading>>
         /\ error' # NoError
         /\ toast'.show /\ toast'.type = "error"]_vars

\* C3 witness: the validation failed while a list was loaded and nothing is
\* in flight.
C3_Witness ==
  /\ error = "required information is missing"
  /\ toast = ErrorToast("required information is missing")
  /\ visitedPlaces # <<>> /\ ~isLoading
  /\ txq = <<>>

\* C4: a successful removePlaceVisit(id) leaves no record with that id in the
\* durable store or in visitedPlaces; when the id was already absent it ends
\* without an error and changes neither.  The same holds of
\* dbService.deleteVisitedPlace and the durable store.
C4_RemoveIsIdempotent ==
  [][/\ \A s \in Slots :
          removePlaceVisit_delete(s, TRUE) =>
            /\ WithId(db', call[s].id) = {}
            /\ CountId(visitedPlaces', call[s].id) = 0
            /\ ret' = "fulfilled" /\ error' = error /\ toast'.type # "error"
            /\ (WithId(db, call[s].id) = {} /\ CountId(visitedPlaces, call[s].id) = 0)
                 => UNCHANGED <<db, visitedPlaces>>
     /\ \A id \in IdInputs :
          deleteVisitedPlace(id, TRUE) =>
            /\ WithId(db', id) = {}
            /\ dbResult'.status = "resolved"
            /\ WithId(db, id) = {} => UNCHANGED db]_vars

\* C4 witness: a removal of a place that was marked before has completed,
\* and another record is still stored.
C4_Witness ==
  /\ toast.message = Text("removed the visit record")
  /\ selectedPlace # Undef
  /\ WithId(db, selectedPlace.uniqueId) = {}
  /\ CountId(visitedPlaces, selectedPlace.uniqueId) = 0
  /\ Japan \in db

\* C5: a successful importFromCSV sets visitedPlaces to what the durable
\* store holds after the bulk write, one entry per uniqueId: the bulk write
\* keeps every uniqueId stored before and adds the imported ones, and the
\* list is read from the store, whatever the list held before.
C5_ImportReloadsFromStore ==
  [][\A s \in Slots :
       /\ importFromCSV_write(s, TRUE) =>
            /\ \A r \in db : WithId(db', r.uniqueId) # {}
            /\ \A i \in 1..Len(call[s].rows) :
                 ValidKey(call[s].rows[i].uniqueId) =>
                   WithId(db', call[s].rows[i].uniqueId) # {}
       /\ importFromCSV_getAll(s, TRUE) =>
            /\ InList(visitedPlaces') = db
            /\ \A r \in db : CountId(visitedPlaces', r.uniqueId) = 1]_vars

\* C5 witness: the import was the only call (the list in memory was empty),
\* and the list now holds the record stored before and an imported one.
C5_Witness ==
  /\ toast.message.text = "import complete"
  /\ calls = 1 /\ ~isLoading
  /\ Japan \in InList(visitedPlaces)
  /\ Tokyo \in InList(visitedPlaces)

IngestFailures == {"broken.csv", "invalid-rows.csv", "unreadable.csv"}

\* C6: an importFromCSV whose file cannot be read, does not parse or has no
\* row with the three required fields ends with nothing written: no
\* transaction, the durable store and visitedPlaces as before, isLoading
\* false, error and an error toast set.
C6_FailedIngestionWritesNothing ==
  [][\A s \in Slots :
       (call[s].file \in IngestFailures /\ importFromCSV_read(s)) =>
         /\ UNCHANGED <<db, visitedPlaces, txq>>
         /\ call'[s] = Idle
         /\ ~isLoading'
         /\ error' # NoError
         /\ toast'.show /\ toast'.type = "error"]_vars

\* C6 witness: the import of a file that does not parse failed after the
\* list was loaded.
C6_Witness ==
  /\ error = "error while parsing the CSV"
  /\ toast = ErrorToast("error while parsing the CSV")
  /\ ~isLoading
  /\ db = {Japan} /\ visitedPlaces = <<Japan>>

\* The rows whose put does not throw.
Accepted(rows) == {i \in 1..Len(rows) : ValidKey(rows[i].uniqueId)}
\* Row i is the last accepted row of its uniqueId.
LastOfId(rows, i) ==
  \A j \in Accepted(rows) : rows[j].uniqueId = rows[i].uniqueId => j <= i

Completes(s) ==
  \/ \E ok \in BOOLEAN : initializeStore_getAll(s, ok)
  \/ \E ok \in BOOLEAN : markPlaceAsVisited_put(s, ok)
  \/ \E ok \in BOOLEAN : removePlaceVisit_delete(s, ok)
  \/ importFromCSV_read(s)
  \/ \E ok \in BOOLEAN : importFromCSV_write(s, ok)
  \/ \E ok \in BOOLEAN : importFromCSV_getAll(s, ok)

\* Every I/O a call waits for completes: an IndexedDB request or transaction
\* settles, and FileReader fires onload or onerror.
FairSpec == Spec /\ \A s \in Slots : WF_vars(Completes(s))

\* The step in which the I/O of call s fails.
Fails(s) ==
  \/ initializeStore_getAll(s, FALSE)
  \/ markPlaceAsVisited_put(s, FALSE)
  \/ removePlaceVisit_delete(s, FALSE)
  \/ call[s].file \in IngestFailures /\ importFromCSV_read(s)
  \/ importFromCSV_write(s, FALSE)
  \/ importFromCSV_getAll(s, FALSE)

\* C8: every call of initializeStore, markPlaceAsVisited, removePlaceVisit or
\* importFromCSV that set isLoading to true ends, and isLoading is false when
\* it ends; when its I/O fails it ends with error set and an error toast shown.
C8_LoadingIsReset ==
  /\ \A s \in Slots : (call[s].pc # "idle") ~> (call[s].pc = "idle" /\ ~isLoading)
  /\ [][\A s \in Slots :
          Fails(s) =>
            /\ call'[s].pc = "idle" /\ ~isLoading'
            /\ error' # NoError
            /\ toast'.show /\ toast'.type = "error"]_vars

\* C8 witness: a removal whose delete failed has ended.
C8_Witness ==
  /\ error = "failed to remove the visit record"
  /\ toast = ErrorToast("failed to remove the visit record")
  /\ ~isLoading
  /\ \A s \in Slots : call[s].pc = "idle"

\* C9: no store action rejects or throws to its caller, the re-throw in the
\* catch block of exportToCSV included.
C9_NoErrorReachesCaller == ret \in {"none", "fulfilled"}

\* C9 witness: exportToCSV threw, both of its error toasts were shown, and
\* the call returned.
C9_Witness ==
  /\ toast = ErrorToast("error during export")
  /\ timers = 2
  /\ ret = "fulfilled"

\* C10: a markPlaceAsVisited or removePlaceVisit whose durable-store write
\* fails changes neither visitedPlaces nor selectedPlace nor the durable
\* store, in the step that invokes it and in the step that fails.
C10_FailedWriteKeepsState ==
  [][\A s \in Slots :
       \/ markPlaceAsVisited_put(s, FALSE)
       \/ removePlaceVisit_delete(s, FALSE)
       \/ \E p \in PlaceInputs : markPlaceAsVisited(s, p)
       \/ \E id \in IdInputs : removePlaceVisit(s, id)
       => UNCHANGED <<visitedPlaces, selectedPlace, db>>]_vars

\* C10 witness: a markPlaceAsVisited failed after an earlier one had
\* succeeded, whose record is still listed, selected and stored.
C10_Witness ==
  /\ error = "failed to save the visited place"
  /\ toast = ErrorToast("failed to save the visited place")
  /\ selectedPlace # Undef
  /\ visitedPlaces = <<selectedPlace>>
  /\ selectedPlace \in db
  /\ \A s \in Slots : call[s].pc = "idle"

\* C11: exportToCSV on an empty visitedPlaces generates no CSV and triggers
\* no download, shows a warning toast, and leaves visitedPlaces, error and
\* isLoading alone.
C11_EmptyExportIsNoOp ==
  [][\A throws \in BOOLEAN :
       (Len(visitedPlaces) = 0 /\ exportToCSV(throws)) =>
         /\ UNCHANGED <<download, visitedPlaces, error, isLoading>>
         /\ toast' = [show |-> TRUE, message |-> Text("no data to export"),
                      type |-> "warning"]]_vars

\* C11 witness: the export of an empty list has shown its warning while
\* records are stored, and nothing was downloaded.
C11_Witness ==
  /\ toast = [show |-> TRUE, message |-> Text("no data to export"), type |-> "warning"]
  /\ visitedPlaces = <<>> /\ db # {}
  /\ download = NoDownload
  /\ ret = "fulfilled"

\* The toasts that are set together with a setTimeout(..., 3000) of their own.
TimedToasts ==
  {"registered as visited", "removed the visit record", "no data to export",
   "exported the CSV file", "error during export", "select a file",
   "failed to move to the map"}

\* C12: a toast that has a dismissal of its own is hidden only by that
\* dismissal.  Timers of the same delay fire in the order they were set and
\* the dismissal of the toast on display is the one set last, so the
\* callback that hides it has to be the only one pending.
C12_StaleDismissalSuperseded ==
  [][(dismissToast /\ toast.show /\ toast.message.text \in TimedToasts)
       => timers = 1]_vars

\* Every awaited I/O settles and every setTimeout callback runs.
FairToastSpec == FairSpec /\ WF_vars(dismissToast)

\* C13: every toast the store shows is hidden again by the store.
C13_EveryToastIsDismissed == toast.show ~> ~toast.show

\* C14: a getCountriesGeoJson called while isCacheValid('countries') holds
\* returns the cached payload and issues no fetch (and starts no loop).
C14_ValidCacheIsServed ==
  [][\A m \in MapSlots :
       (isCacheValid("countries") /\ getCountriesGeoJson(m)) =>
         /\ mret' = Returned(geoDataCache.countries)
         /\ fetches' = fetches
         /\ UNCHANGED <<mcall, geoDataCache>>]_mapVars

\* C14 witness: one fetch served two calls, the second one two clock units
\* after the fetch.
C14_Witness ==
  /\ Truthy(Entry(geoDataCache, "countries"))
  /\ mret = Returned(geoDataCache.countries)
  /\ fetches = 1 /\ mcalls = 2
  /\ Truthy(geoDataCache.lastFetched)
  /\ clock - geoDataCache.lastFetched.v = 2
  /\ \A m \in MapSlots : mcall[m].pc = "idle"

\* The fetch of call m settles.
Settles(m) == \E o \in FetchOutcomes : getCountriesGeoJson_fetch(m, o)

\* Every fetch settles (the AbortSignal.timeout sees to it), every backoff
\* timer fires, and time passes.
FairSpecMap ==
  /\ SpecMap
  /\ \A m \in MapSlots : WF_mapVars(Settles(m)) /\ WF_mapVars(getCountriesGeoJson_wait(m))
  /\ WF_mapVars(Elapse)

\* C15: a call that fetches makes at most maxRetries attempts and ends; a
\* validated success returns at once; the attempt that fails as number
\* maxRetries rejects, naming that count, with no wait; a failure of attempt
\* k < maxRetries waits retryDelay * k and rejects nothing.
C15_BoundedRetries ==
  /\ [](\A m \in MapSlots : mcall[m].pc # "idle" => mcall[m].retries < maxRetries)
  /\ [][\A m \in MapSlots, o \in FetchOutcomes :
          getCountriesGeoJson_fetch(m, o) =>
            LET k == mcall[m].retries + 1 IN
            IF Succeeds(o)
            THEN mret' = Returned(o.data) /\ mcall'[m].pc = "idle"
            ELSE IF k = maxRetries
            THEN mret' = Rejected(maxRetries) /\ mcall'[m].pc = "idle"
            ELSE /\ mcall'[m].pc = "wait" /\ mcall'[m].retries = k
                 /\ mcall'[m].due = clock + retryDelay * k
                 /\ mret' = mret]_mapVars
  /\ \A m \in MapSlots : (mcall[m].pc # "idle") ~> (mcall[m].pc = "idle")

\* C15 witness: a single call was rejected after three fetches and waits of
\* one and two clock units.
C15_Witness ==
  /\ mret = Rejected(3)
  /\ fetches = 3 /\ mcalls = 1
  /\ clock = 3
  /\ \A m \in MapSlots : mcall[m].pc = "idle"

\* C16: no step of a call whose attempts fail changes the cache: not its
\* start, not a failed attempt, not the end of a wait.
C16_FailedFetchKeepsCache ==
  [][\A m \in MapSlots :
       \/ getCountriesGeoJson(m)
       \/ getCountriesGeoJson_wait(m)
       \/ \E o \in FetchOutcomes : ~Succeeds(o) /\ getCountriesGeoJson_fetch(m, o)
       => UNCHANGED geoDataCache]_mapVars

\* C16 witness: a call was rejected while the cache held an expired payload,
\* which is still there with its fetch time.
C16_Witness ==
  /\ mret = Rejected(3)
  /\ Truthy(Entry(geoDataCache, "countries"))
  /\ Truthy(geoDataCache.lastFetched)
  /\ clock - geoDataCache.lastFetched.v >= cacheExpiration
  /\ \A m \in MapSlots : mcall[m].pc = "idle"

\* A payload that is an object with a features array.
HasFeatureArray(data) == data.k = "object" /\ data.features.k = "array"

\* C17: the countries entry only ever holds a payload with a features array;
\* an attempt writes it, together with lastFetched, exactly when the response
\* is OK and parses to such a payload, and otherwise leaves the cache alone
\* and counts as a failed attempt (a wait and a retry, or the rejection).
C17_OnlyValidatedPayloadIsCached ==
  /\ [](~Truthy(Entry(geoDataCache, "countries"))
         \/ HasFeatureArray(geoDataCache.countries))
  /\ [][\A m \in MapSlots, o \in FetchOutcomes :
          getCountriesGeoJson_fetch(m, o) =>
            IF o.fetch = "responds" /\ o.ok /\ o.parses /\ o.data # Null
               /\ HasFeatureArray(o.data)
            THEN /\ geoDataCache'.countries = o.data
                 /\ geoDataCache'.lastFetched = DateOf(clock)
            ELSE /\ UNCHANGED geoDataCache
                 /\ \/ mcall'[m].pc = "wait" /\ mcall'[m].retries = mcall[m].retries + 1
                    \/ mret' = Rejected(maxRetries) /\ mcall'[m].pc = "idle"]_mapVars
  /\ [][(Entry(geoDataCache, "countries") # Entry(geoDataCache', "countries")
          /\ Truthy(Entry(geoDataCache', "countries")))
         => \E m \in MapSlots, o \in FetchOutcomes :
              Succeeds(o) /\ getCountriesGeoJson_fetch(m, o)]_mapVars

\* C17 witness: the one call needed a second attempt, whose payload (a
\* features array without a feature) is cached with the time of that attempt.
C17_Witness ==
  /\ mcalls = 1 /\ fetches = 2
  /\ mret = Returned(Geo(Arr("")))
  /\ Entry(geoDataCache, "countries") = Geo(Arr(""))
  /\ geoDataCache.lastFetched = DateOf(clock) /\ clock > 0

\* An entry that is there: neither undefined nor null.
Present(x) == x # Undef /\ x # Null

\* C18: isCacheValid(key) holds exactly when the entry is present,
\* lastFetched is set and less than cacheExpiration has elapsed since; it is
\* false for every key right after clearCache and true for 'countries' right
\* after a successful fetch.
C18_CacheValidity ==
  /\ [](\A key \in KeyInputs :
          isCacheValid(key) <=>
            /\ Present(Entry(geoDataCache, key))
            /\ Present(geoDataCache.lastFetched)
            /\ clock - geoDataCache.lastFetched.v < cacheExpiration)
  /\ [][\A cacheKey \in KeyInputs \cup {NoKey} :
          clearCache(cacheKey) => \A key \in KeyInputs : ~isCacheValid(key)']_mapVars
  /\ [][\A m \in MapSlots, o \in FetchOutcomes :
          (Succeeds(o) /\ getCountriesGeoJson_fetch(m, o)) => isCacheValid("countries")']_mapVars

\* C18 witness: the payload of a successful fetch is still cached but has
\* reached its expiry.
C18_Witness ==
  /\ mret.status = "returned"
  /\ Present(Entry(geoDataCache, "countries"))
  /\ Present(geoDataCache.lastFetched)
  /\ clock - geoDataCache.lastFetched.v = cacheExpiration
  /\ ~isCacheValid("countries")

\* C19: clearCache(key) with a key leaves the named entry empty, keeps every
\* other payload entry and resets lastFetched.
C19_ClearsOnlyNamedEntry ==
  [][\A cacheKey \in KeyInputs :
       clearCache(cacheKey) =>
         /\ ~Truthy(Entry(geoDataCache', cacheKey))
         /\ \A k \in DOMAIN geoDataCache \ {cacheKey, "lastFetched"} :
              geoDataCache'[k] = geoDataCache[k]
         /\ geoDataCache'.lastFetched = Null]_mapVars

\* C20: every record of the durable store carries a dateMarked.
C20_StoredRecordsAreDated == \A r \in db : Truthy(r.dateMarked)

\* C24: clearError sets error to null and changes nothing else of the store
\* state; it opens no transaction and touches neither the object store nor
\* the downloads.
C24_ClearErrorOnlyClearsError ==
  [][clearError =>
       /\ error' = NoError
       /\ UNCHANGED <<visitedPlaces, selectedPlace, isLoading, toast>>
       /\ UNCHANGED <<db, txq, call, timers, download>>]_vars

\* C24 witness: the error of a failed removal was cleared; its toast and the
\* loaded list are as they were.
C24_Witness ==
  /\ error = NoError
  /\ toast = ErrorToast("failed to remove the visit record")
  /\ visitedPlaces # <<>>

\* No store action is in flight.
Quiescent == \A s \in Slots : call[s].pc = "idle"
\* The uniqueIds of the list, and the keys of the object store.
ListIds == {visitedPlaces[i].uniqueId : i \in 1..Len(visitedPlaces)}
StoreKeys == {r.uniqueId : r \in db}

\* C26: once initializeStore has loaded the list, the uniqueIds of
\* visitedPlaces are the keys of the durable store whenever no store action
\* is in flight.
C26_ListMatchesStore == (Quiescent /\ initialized) => ListIds = StoreKeys

\* C28: isLoading is true while a store action is between its set of
\* isLoading and its final commit.
C28_LoadingWhileInFlight == ~Quiescent => isLoading

\* C29: a successful removePlaceVisit(id) leaves no selectedPlace with that
\* uniqueId.
C29_RemovedPlaceIsDeselected ==
  [][\A s \in Slots :
       removePlaceVisit_delete(s, TRUE) =>
         (selectedPlace' = Undef \/ selectedPlace'.uniqueId # call[s].id)]_vars

\* The calls whose fetch is in flight.
Fetching == {m \in MapSlots : mcall[m].pc = "fetch"}

\* C27: across all getCountriesGeoJson calls at most one fetch is in flight.
C27_OneFetchInFlight == Cardinality(Fetching) <= 1

FairSpecGeo ==
  /\ SpecGeo
  /\ \A g \in GeoSlots : WF_<<geoVars, clock>>(getCurrentLocation_timeout(g))
  /\ WF_<<geoVars, clock>>(Elapse)

\* C25: the promise of getCurrentLocation settles once and keeps its
\* outcome; a platform success resolves it with the coordinates, a platform
\* error rejects it with the message of its code, the 15-second timer
\* rejects it with the timeout error; a platform callback cancels the timer
\* (it does not fire afterwards); and a call that asked the platform settles.
C25_SettlesOnceWithFirstEvent ==
  /\ [][\A g \in GeoSlots :
          /\ geo[g].promise.state # "pending" => geo'[g].promise = geo[g].promise
          /\ \A coords \in PositionInputs :
               (geo[g].promise.state = "pending" /\ getCurrentLocation_success(g, coords))
                 => geo'[g].promise = Fulfilled(coords)
          /\ \A code \in ErrorCodes :
               (geo[g].promise.state = "pending" /\ getCurrentLocation_error(g, code))
                 => geo'[g].promise = RejectedWith(GeoErrorMessage(code))
          /\ getCurrentLocation_timeout(g) =>
               /\ geo[g].platform = "asked" /\ geo[g].promise.state = "pending"
               /\ clock - geo[g].due >= 0
               /\ geo'[g].promise = RejectedWith("getting the location timed out (15 s)")
          /\ (geo[g].platform = "asked" /\ geo'[g].platform = "delivered")
               => geo'[g].timer \in {"cleared", "fired"}
          /\ geo[g].timer = "cleared" => geo'[g].timer = "cleared"]_<<geoVars, clock>>
  /\ \A g \in GeoSlots :
       (geo[g].platform = "asked") ~> (geo[g].promise.state # "pending")

\* C25 witness: the timer of one call fired and rejected it, the platform's
\* answer came afterwards and changed nothing; the other call was resolved
\* by the platform, its timer cancelled.
C25_Witness ==
  /\ geo["g1"].timer = "fired" /\ geo["g1"].platform = "delivered"
  /\ geo["g1"].promise = RejectedWith("getting the location timed out (15 s)")
  /\ geo["g2"].timer = "cleared"
  /\ geo["g2"].promise.state = "fulfilled"

\* The cell of a data line under a header field ("" when the line is short).
CellOf(header, line, field) ==
  IF Includes(header, field) /\ IndexOf(header, field) <= Len(line)
  THEN line[IndexOf(header, field)] ELSE ""

\* The data line lacks a required field: the cell is absent or blank.
Lacks(header, line) ==
  \E i \in 1..Len(requiredFields) : Trim(CellOf(header, line, requiredFields[i])) = ""

\* The file is a CSV with text in it that the FileReader hands over.
NonEmptyCsv == upload.kind = "file" /\ upload.type = "text/csv" /\ upload.readable /\ ~upload.blank

\* C21: every row parseCSV returns has uniqueId, placeName and adminLevel as
\* trimmed strings (a cell 1 gives "1"); invalidRows is the number of data
\* lines that lack a required field; data is not empty on success.
C21_RowsNormalisedAndCounted ==
  parsed.status = "resolved" =>
    /\ \A i \in 1..Len(parsed.data) : \A j \in 1..Len(requiredFields) :
         LET x == parsed.data[i][requiredFields[j]]
         IN  x.k = "string" /\ Trim(x.v) = x.v
    /\ (\E i \in 1..Len(upload.lines) : Trim(CellOf(upload.header, upload.lines[i], "uniqueId")) = "1")
         => \E i \in 1..Len(parsed.data) : parsed.data[i].uniqueId = Str("1")
    /\ parsed.invalidRows =
         Cardinality({i \in 1..Len(upload.lines) : Lacks(upload.header, upload.lines[i])})
    /\ Len(parsed.data) > 0

\* C22 as stated: every non-empty CSV whose header lacks a required field
\* is rejected with the missing-fields error naming exactly the absent
\* required fields, never with another error.
C22_MissingFieldsNamed ==
  (NonEmptyCsv /\ parsed.status # "none"
     /\ \E j \in 1..Len(requiredFields) : ~Includes(upload.header, requiredFields[j]))
  => /\ parsed.status = "rejected"
     /\ parsed.error = "required fields are missing"
     /\ {parsed.missing[j] : j \in 1..Len(parsed.missing)}
          = {requiredFields[j] : j \in 1..Len(requiredFields)}
              \ {upload.header[j] : j \in 1..Len(upload.header)}

\* C22, amended: the same for every non-empty CSV that parses without a
\* critical error (an error other than a field-count mismatch).
C22_MissingFieldsNamedUnlessParseError ==
  (NonEmptyCsv /\ parsed.status # "none"
     /\ ~upload.quotes /\ ~UndetectableDelimiter(upload)
     /\ \E j \in 1..Len(requiredFields) : ~Includes(upload.header, requiredFields[j]))
  => /\ parsed.status = "rejected"
     /\ parsed.error = "required fields are missing"
     /\ {parsed.missing[j] : j \in 1..Len(parsed.missing)}
          = {requiredFields[j] : j \in 1..Len(requiredFields)}
              \ {upload.header[j] : j \in 1..Len(upload.header)}

\* C22 witness: a CSV with the header uniqueId,name and data lines, none
\* of them a valid row, was rejected naming placeName and adminLevel.
C22_Witness ==
  /\ NonEmptyCsv /\ ~upload.quotes
  /\ upload.header = <<"uniqueId", "name">> /\ Len(upload.lines) = 2
  /\ parsed.status = "rejected"
  /\ parsed.missing = <<"placeName", "adminLevel">>

\* The triple of required-field values of a generated row, of a data line.
Triple(row) == <<row.uniqueId, row.placeName, row.adminLevel>>
LineTriple(header, line) ==
  <<Trim(CellOf(header, line, "uniqueId")), Trim(CellOf(header, line, "placeName")),
    Trim(CellOf(header, line, "adminLevel"))>>

\* C23: the rows generateCSV writes for the data of an accepted CSV carry
\* the same set of (uniqueId, placeName, adminLevel) triples as the data
\* lines of the CSV that have all three.
C23_RoundTrip ==
  (parsed.status = "resolved" /\ generated.status = "returned") =>
    {Triple(generated.rows[i]) : i \in 1..Len(generated.rows)}
      = {LineTriple(upload.header, upload.lines[i]) :
           i \in {k \in 1..Len(upload.lines) : ~Lacks(upload.header, upload.lines[k])}}

====
